---- MODULE Spec2Model ----
(***************************************************************************)
(* Model of src/model.py: the grid and tiles of the game 512 and the       *)
(* listener notifications they produce.                                    *)
(*                                                                         *)
(* Tile objects are numbered 1, 2, ... in order of construction; heap[t]   *)
(* holds the fields of object t.  The grid is element 0 of the listener    *)
(* table.  A call of set_tiles, place_tile, left, right, up, down or       *)
(* add_listener is one step; Tile.slide is a call step followed by one     *)
(* step per iteration of its loop.                                         *)
(***************************************************************************)
EXTENDS Integers, Sequences, FiniteSets, TLC

\* model.py:15
GRID_SIZE == 4

\* Bounds of the exploration.
MaxCalls == 2           \* calls made since the grid was constructed or last filled
MaxPlaced == 1          \* place_tile calls among them
MaxListeners == 1       \* registrations over all elements

\* Grid.__init__: self.rows, self.cols
rows == GRID_SIZE
cols == GRID_SIZE

RowIdx == 0 .. (rows - 1)
ColIdx == 0 .. (cols - 1)

\* Python's None in a cell, and as a returned value.
None == 0
NoSpot == <<>>

\* The element number of the grid in the listener table.
Grid == 0

\* The listener objects (GameListener) that register.
Listeners == {"view"}

\* EventKind
EventKind == {"tile_created", "tile_updated", "tile_removed"}

\* GameEvent(kind, tile), with the element whose notify_all is called.
GameEvent(elem, kind, tile) == [src |-> elem, kind |-> kind, tile |-> tile]

VARIABLES
    tiles,      \* Grid.tiles: tiles[row][col] is None or a tile object
    heap,       \* Tile.row, Tile.col, Tile.value of every object, by number
    listeners,  \* GameElement._listeners of the grid (0) and of every tile
    events,     \* the notify_all calls of the current or last call, in order
    notified,   \* the listener.notify calls of that call, in order, each with
                \* the element whose listener list it was made from
    seen,       \* for each of them, what the listener finds when it reads
                \* grid.tiles[tile.row][tile.col] for the event's tile
    removed,    \* the tile objects that have emitted tile_removed
    ret,        \* the value the current or last call returned
    pc,         \* "idle", or "slide" while Tile.slide's loop runs
    frame,      \* Tile.slide's locals: self, row, col, dx, dy, and a step count
    call,       \* the current or last call: its name, and the matrix if it is
                \* set_tiles
    err,        \* the exception that call raised, or "none"
    calls,      \* calls made since construction or the last set_tiles
    placed      \* place_tile calls among them

vars == <<tiles, heap, listeners, events, notified, seen, removed, ret,
          pc, frame, call, err, calls, placed>>

\* The part of the state the methods read and write, as one value.
World == [tiles |-> tiles, heap |-> heap, listeners |-> listeners,
          events |-> events, notified |-> notified, seen |-> seen,
          removed |-> removed, ret |-> ret]

\* Grid.__init__: a matrix of None
EmptyTiles == [r \in RowIdx |-> [c \in ColIdx |-> None]]

NoFrame == [self |-> 0, row |-> 0, col |-> 0, dx |-> 0, dy |-> 0, moves |-> 0, iters |-> 0]

-----------------------------------------------------------------------------
\* GameElement

add_listener(w, elem, listener) ==
    [w EXCEPT !.listeners[elem] = Append(@, listener)]

\* What grid.tiles[tile.row][tile.col] gives a listener that reads it: the
\* tile, something else, or IndexError where grid.tiles has no such entry.
Lookup(w, tile) ==
    LET row == w.heap[tile].row
        col == w.heap[tile].col
    IN  IF row \in DOMAIN w.tiles /\ col \in DOMAIN w.tiles[row]
        THEN IF w.tiles[row][col] = tile THEN "stored" ELSE "other"
        ELSE "IndexError"

\* notify_all telling every listener object once, however often it registered.
notify_all_once(w, elem, kind, tile) ==
    LET all == w.listeners[elem]
        ls == SelectSeq([i \in 1 .. Len(all) |-> [at |-> i, l |-> all[i]]],
                        LAMBDA x : \A j \in 1 .. (x.at - 1) : all[j] # x.l)
    IN  [w EXCEPT !.events = Append(@, GameEvent(elem, kind, tile)),
                  !.notified = @ \o [i \in 1 .. Len(ls) |->
                                       [listener |-> ls[i].l, src |-> elem,
                                        kind |-> kind, tile |-> tile]],
                  !.seen = @ \o [i \in 1 .. Len(ls) |-> Lookup(w, tile)]]

notify_all(w, elem, kind, tile) ==
    LET ls == w.listeners[elem]
    IN  [w EXCEPT !.events = Append(@, GameEvent(elem, kind, tile)),
                  !.notified = @ \o [i \in 1 .. Len(ls) |->
                                       [listener |-> ls[i], src |-> elem,
                                        kind |-> kind, tile |-> tile]],
                  !.seen = @ \o [i \in 1 .. Len(ls) |-> Lookup(w, tile)]]

-----------------------------------------------------------------------------
\* Tile

\* The number the next constructed Tile gets.
NextId(w) == Len(w.heap) + 1

\* Tile(grid, row, col, value): the new object is number NextId(w).
TileInit(w, row, col, value) ==
    [w EXCEPT !.heap = Append(@, [row |-> row, col |-> col, value |-> value]),
              !.listeners = @ @@ (NextId(w) :> <<>>)]

DefaultValue == 2

remove(w, self) ==
    notify_all([w EXCEPT !.removed = @ \cup {self}], self, "tile_removed", self)

\* merge as the slip "self.remove()" would make it.
merge_removes_self(w, self, other) ==
    LET w1 == [w EXCEPT !.heap[self].value = @ + w.heap[other].value]
        w2 == remove(w1, self)
    IN  notify_all(w2, self, "tile_updated", self)

\* merge without "self.value = self.value + other.value".
merge_drops_value(w, self, other) ==
    notify_all(remove(w, other), self, "tile_updated", self)

\* merge counting the absorbed tile instead of adding its value.
merge_adds_one(w, self, other) ==
    LET w1 == [w EXCEPT !.heap[self].value = @ + 1]
        w2 == remove(w1, other)
    IN  notify_all(w2, self, "tile_updated", self)

\* merge notifying of the update before the removal.
merge_update_first(w, self, other) ==
    LET w1 == [w EXCEPT !.heap[self].value = @ + w.heap[other].value]
        w2 == notify_all(w1, self, "tile_updated", self)
    IN  remove(w2, other)

merge(w, self, other) ==
    LET w1 == [w EXCEPT !.heap[self].value = @ + w.heap[other].value]
        w2 == remove(w1, other)
    IN  notify_all(w2, self, "tile_updated", self)

\* move without "self.grid.tiles[self.row][self.col] = None".
move_keeps_old(w, self, row, col) ==
    LET w2 == [w EXCEPT !.heap[self].row = row, !.heap[self].col = col]
        w3 == [w2 EXCEPT !.tiles[row][col] = self]
    IN  notify_all(w3, self, "tile_updated", self)

move(w, self, row, col) ==
    LET w1 == [w EXCEPT !.tiles[w.heap[self].row][w.heap[self].col] = None]
        w2 == [w1 EXCEPT !.heap[self].row = row, !.heap[self].col = col]
        w3 == [w2 EXCEPT !.tiles[row][col] = self]
    IN  notify_all(w3, self, "tile_updated", self)

-----------------------------------------------------------------------------
\* Grid

\* in_bounds with the upper limits included.
in_bounds_inclusive(row, col) == 0 <= row /\ row <= rows /\ 0 <= col /\ col <= cols

in_bounds(row, col) == 0 <= row /\ row < rows /\ 0 <= col /\ col < cols

as_list(tls, hp) ==
    [r \in RowIdx |-> [c \in ColIdx |->
        IF tls[r][c] = None THEN 0 ELSE hp[tls[r][c]].value]]

\* set_tiles's inner loop without its notify_all call.
RECURSIVE set_tiles_row_silent(_, _, _, _)
set_tiles_row_silent(rep, row, row_tiles, w) ==
    LET col == Len(row_tiles)
    IN  IF col = cols THEN [w |-> w, row_tiles |-> row_tiles]
        ELSE IF rep[row][col] = 0
        THEN set_tiles_row_silent(rep, row, Append(row_tiles, None), w)
        ELSE LET tile == NextId(w)
                 w1 == TileInit(w, row, col, rep[row][col])
             IN  set_tiles_row_silent(rep, row, Append(row_tiles, tile), w1)

\* set_tiles's inner loop building every tile with the default value.
RECURSIVE set_tiles_row_default(_, _, _, _)
set_tiles_row_default(rep, row, row_tiles, w) ==
    LET col == Len(row_tiles)
    IN  IF col = cols THEN [w |-> w, row_tiles |-> row_tiles]
        ELSE IF rep[row][col] = 0
        THEN set_tiles_row_default(rep, row, Append(row_tiles, None), w)
        ELSE LET tile == NextId(w)
                 w1 == TileInit(w, row, col, DefaultValue)
             IN  set_tiles_row_default(rep, row, Append(row_tiles, tile),
                                       notify_all(w1, Grid, "tile_created", tile))

\* set_tiles's inner loop "for col in range(self.cols)", from column
\* Len(row_tiles) on: the list row_tiles it builds, and the world after it.
\* The tile is announced while row_tiles is not yet part of self.tiles.
RECURSIVE set_tiles_row(_, _, _, _)
set_tiles_row(rep, row, row_tiles, w) ==
    LET col == Len(row_tiles)
    IN  IF col = cols THEN [w |-> w, row_tiles |-> row_tiles]
        ELSE IF rep[row][col] = 0
        THEN set_tiles_row(rep, row, Append(row_tiles, None), w)
        ELSE LET tile == NextId(w)
                 w1 == TileInit(w, row, col, rep[row][col])
             IN  set_tiles_row(rep, row, Append(row_tiles, tile),
                               notify_all(w1, Grid, "tile_created", tile))

\* set_tiles's outer loop "for row in range(self.rows)", from row on:
\* "self.tiles.append(row_tiles)" once the row is built.
RECURSIVE set_tiles_from(_, _, _)
set_tiles_from(rep, row, w) ==
    IF row = rows THEN w
    ELSE LET r == set_tiles_row(rep, row, <<>>, w)
         IN  set_tiles_from(rep, row + 1,
                 [r.w EXCEPT !.tiles =
                     @ @@ (row :> [c \in ColIdx |-> r.row_tiles[c + 1]])])

\* "self.tiles = []", then the loops.  The tiles of the replaced matrix are
\* no longer reachable from the grid: their records are dropped and the
\* numbering starts again.
set_tiles(w, rep) ==
    set_tiles_from(rep, 0,
        [w EXCEPT !.tiles = <<>>,
                  !.heap = <<>>,
                  !.listeners = (Grid :> w.listeners[Grid]),
                  !.removed = {}])

RECURSIVE SumOver(_, _)
SumOver(f, S) ==
    IF S = {} THEN 0
    ELSE LET x == CHOOSE y \in S : TRUE IN f[x] + SumOver(f, S \ {x})

\* score leaving out the last row.
score_short(tls, hp) ==
    LET Pos == (RowIdx \ {rows - 1}) \X ColIdx
        val == [p \in Pos |-> IF tls[p[1]][p[2]] # None THEN hp[tls[p[1]][p[2]]].value ELSE 0]
    IN  SumOver(val, Pos)

score(tls, hp) ==
    LET Pos == RowIdx \X ColIdx
        val == [p \in Pos |-> IF tls[p[1]][p[2]] # None THEN hp[tls[p[1]][p[2]]].value ELSE 0]
    IN  SumOver(val, Pos)

\* find_empty with its test inverted ("is not None").
find_empty_occupied(tls) ==
    LET candidates == {pos \in RowIdx \X ColIdx : tls[pos[1]][pos[2]] # None}
    IN  IF candidates = {} THEN {NoSpot} ELSE candidates

\* The values find_empty can return: None (NoSpot), or any of the candidates
\* (random.choice).
find_empty(tls) ==
    LET candidates == {pos \in RowIdx \X ColIdx : tls[pos[1]][pos[2]] = None}
    IN  IF candidates = {} THEN {NoSpot} ELSE candidates

\* place_tile returning quietly when there is no empty cell.
place_tile_recovers(w, spot, asserts) ==
    IF spot = NoSpot
    THEN [w |-> w, err |-> "none"]
    ELSE LET row == spot[1]
             col == spot[2]
             tile == NextId(w)
             w1 == TileInit(w, row, col, DefaultValue)
             w2 == [w1 EXCEPT !.tiles[row][col] = tile]
         IN  [w |-> notify_all(w2, Grid, "tile_created", tile), err |-> "none"]

\* place_tile when find_empty returns spot.  "assert spot is not None" raises
\* AssertionError; in a build with assertions disabled (asserts = FALSE) the
\* unpacking "row, col = spot" of None raises TypeError.
place_tile(w, spot, asserts) ==
    IF spot = NoSpot
    THEN [w |-> w, err |-> IF asserts THEN "AssertionError" ELSE "TypeError"]
    ELSE LET row == spot[1]
             col == spot[2]
             tile == NextId(w)
             w1 == TileInit(w, row, col, DefaultValue)
             w2 == [w1 EXCEPT !.tiles[row][col] = tile]
         IN  [w |-> notify_all(w2, Grid, "tile_created", tile), err |-> "none"]

\* left, right, up, down: the bodies are "pass".
left(w) == w
right(w) == w
up(w) == w
down(w) == w

-----------------------------------------------------------------------------
\* Tile.slide

\* The four unit movement vectors (dx, dy): dx is added to the row.
Directions == {<<0, 1>>, <<0, -1>>, <<1, 0>>, <<-1, 0>>}

\* The loop merging with whatever tile is in the way.
slide_body_merges_any(f, w) ==
    LET self == f.self
        trial_x == f.row + f.dx
        trial_y == f.col + f.dy
    IN  IF ~in_bounds(trial_x, trial_y)
        THEN [frame |-> f, w |-> w, brk |-> TRUE]
        ELSE IF w.tiles[trial_x][trial_y] = None
        THEN [frame |-> [f EXCEPT !.row = trial_x, !.col = trial_y],
              w |-> move(w, self, trial_x, trial_y),
              brk |-> FALSE]
        ELSE [frame |-> [f EXCEPT !.row = trial_x, !.col = trial_y],
              w |-> move(merge(w, self, w.tiles[trial_x][trial_y]),
                         self, trial_x, trial_y),
              brk |-> FALSE]

\* The loop without "self.move(self.grid, row, col)" after a merge.
slide_body_merge_only(f, w) ==
    LET self == f.self
        trial_x == f.row + f.dx
        trial_y == f.col + f.dy
    IN  IF ~in_bounds(trial_x, trial_y)
        THEN [frame |-> f, w |-> w, brk |-> TRUE]
        ELSE IF w.tiles[trial_x][trial_y] = None
        THEN [frame |-> [f EXCEPT !.row = trial_x, !.col = trial_y],
              w |-> move(w, self, trial_x, trial_y),
              brk |-> FALSE]
        ELSE IF w.heap[w.tiles[trial_x][trial_y]].value = w.heap[self].value
        THEN [frame |-> [f EXCEPT !.row = trial_x, !.col = trial_y],
              w |-> merge(w, self, w.tiles[trial_x][trial_y]),
              brk |-> FALSE]
        ELSE [frame |-> f, w |-> w, brk |-> TRUE]

\* The loop without "row, col = trial_x, trial_y" where it slides over an
\* empty cell.
slide_body_stale(f, w) ==
    LET self == f.self
        trial_x == f.row + f.dx
        trial_y == f.col + f.dy
    IN  IF ~in_bounds(trial_x, trial_y)
        THEN [frame |-> f, w |-> w, brk |-> TRUE]
        ELSE IF w.tiles[trial_x][trial_y] = None
        THEN [frame |-> f,
              w |-> move(w, self, trial_x, trial_y),
              brk |-> FALSE]
        ELSE IF w.heap[w.tiles[trial_x][trial_y]].value = w.heap[self].value
        THEN [frame |-> [f EXCEPT !.row = trial_x, !.col = trial_y],
              w |-> move(merge(w, self, w.tiles[trial_x][trial_y]),
                         self, trial_x, trial_y),
              brk |-> FALSE]
        ELSE [frame |-> f, w |-> w, brk |-> TRUE]

\* One iteration of slide's "while True": the locals and the world after it,
\* and whether it left the loop (break).
slide_body(f, w) ==
    LET self == f.self
        trial_x == f.row + f.dx
        trial_y == f.col + f.dy
    IN  IF ~in_bounds(trial_x, trial_y)
        THEN [frame |-> f, w |-> w, brk |-> TRUE]
        ELSE IF w.tiles[trial_x][trial_y] = None
        THEN [frame |-> [f EXCEPT !.row = trial_x, !.col = trial_y],
              w |-> move(w, self, trial_x, trial_y),
              brk |-> FALSE]
        ELSE IF w.heap[w.tiles[trial_x][trial_y]].value = w.heap[self].value
        THEN [frame |-> [f EXCEPT !.row = trial_x, !.col = trial_y],
              w |-> move(merge(w, self, w.tiles[trial_x][trial_y]),
                         self, trial_x, trial_y),
              brk |-> FALSE]
        ELSE [frame |-> f, w |-> w, brk |-> TRUE]

-----------------------------------------------------------------------------
\* The inputs of set_tiles that are explored: the all-zero matrix, matrices
\* whose first row is one of a few lines, and a fully occupied matrix.

Lines == {<<0, 0, 0, 0>>, <<2, 2, 0, 0>>, <<2, 2, 2, 0>>, <<2, 4, 0, 0>>, <<2, 2, 4, 8>>}

RowMatrix(r, line) == [i \in RowIdx |-> [j \in ColIdx |-> IF i = r THEN line[j + 1] ELSE 0]]

FullMatrices ==
    { [i \in RowIdx |-> [j \in ColIdx |-> IF (i + j) % 2 = 0 THEN 2 ELSE 4]] }

Matrices == {RowMatrix(0, line) : line \in Lines} \cup FullMatrices

-----------------------------------------------------------------------------
\* The state machine

\* The tile objects the grid holds.
Stored == {tiles[r][c] : r \in RowIdx, c \in ColIdx} \ {None}

Registrations ==
    LET len == [e \in DOMAIN listeners |-> Len(listeners[e])]
    IN  SumOver(len, DOMAIN listeners)

Install(w) ==
    /\ tiles' = w.tiles
    /\ heap' = w.heap
    /\ listeners' = w.listeners
    /\ events' = w.events
    /\ notified' = w.notified
    /\ seen' = w.seen
    /\ removed' = w.removed
    /\ ret' = w.ret

\* The world as a call finds it: the logs start empty and nothing is returned
\* yet.
Entry == [World EXCEPT !.events = <<>>, !.notified = <<>>, !.seen = <<>>,
                       !.ret = NoSpot]

Init ==
    /\ tiles = EmptyTiles
    /\ heap = <<>>
    /\ listeners = (Grid :> <<>>)
    /\ events = <<>>
    /\ notified = <<>>
    /\ seen = <<>>
    /\ removed = {}
    /\ ret = NoSpot
    /\ pc = "idle"
    /\ frame = NoFrame
    /\ call = [op |-> "init", rep |-> <<>>]
    /\ err = "none"
    /\ calls = 0
    /\ placed = 0

AddListener(elem, listener) ==
    /\ pc = "idle"
    /\ calls < MaxCalls
    /\ Registrations < MaxListeners
    /\ Install(add_listener(Entry, elem, listener))
    /\ call' = [op |-> "add_listener", rep |-> <<>>]
    /\ err' = "none"
    /\ calls' = calls + 1
    /\ UNCHANGED <<pc, frame, placed>>

SetTiles(rep) ==
    /\ pc = "idle"
    /\ Install(set_tiles(Entry, rep))
    /\ call' = [op |-> "set_tiles", rep |-> rep]
    /\ err' = "none"
    /\ calls' = 0
    /\ placed' = 0
    /\ UNCHANGED <<pc, frame>>

\* grid.place_tile(): find_empty's choice is any of its candidates.
PlaceTileCall ==
    /\ pc = "idle"
    /\ \E spot \in find_empty(tiles), asserts \in BOOLEAN :
         LET r == place_tile(Entry, spot, asserts)
         IN  /\ Install(r.w)
             /\ err' = r.err
    /\ call' = [op |-> "place_tile", rep |-> <<>>]
    /\ calls' = calls + 1
    /\ placed' = placed + 1
    /\ UNCHANGED <<pc, frame>>

PlaceTile ==
    /\ calls < MaxCalls
    /\ placed < MaxPlaced
    /\ PlaceTileCall

Move(name, w) ==
    /\ pc = "idle"
    /\ calls < MaxCalls
    /\ Install(w)
    /\ call' = [op |-> name, rep |-> <<>>]
    /\ err' = "none"
    /\ calls' = calls + 1
    /\ UNCHANGED <<pc, frame, placed>>

Left == Move("left", left(Entry))
Right == Move("right", right(Entry))
Up == Move("up", up(Entry))
Down == Move("down", down(Entry))

\* tile.slide(d) is called on a tile of the grid: "dx, dy = movement_vector;
\* row, col = self.row, self.col".
SlideEnter(self, d) ==
    /\ pc = "idle"
    /\ self \in Stored
    /\ Install(Entry)
    /\ frame' = [self |-> self, row |-> heap[self].row, col |-> heap[self].col,
                 dx |-> d[1], dy |-> d[2], moves |-> 0, iters |-> 0]
    /\ pc' = "slide"
    /\ call' = [op |-> "slide", rep |-> <<>>]
    /\ err' = "none"
    /\ calls' = calls + 1
    /\ UNCHANGED placed

SlideCall(self, d) ==
    /\ calls < MaxCalls
    /\ SlideEnter(self, d)

\* One iteration of the loop.  moves counts the iterations that changed the
\* tile's position, iters all of them; the locals are gone once slide returns.
SlideStep ==
    /\ pc = "slide"
    /\ \E r \in {slide_body(frame, World)} :
       LET self == frame.self
           moved == <<r.w.heap[self].row, r.w.heap[self].col>>
                       # <<heap[self].row, heap[self].col>>
       IN  /\ Install(r.w)
           /\ frame' = IF r.brk THEN NoFrame
                       ELSE [r.frame EXCEPT !.iters = @ + 1,
                                            !.moves = @ + (IF moved THEN 1 ELSE 0)]
           /\ pc' = IF r.brk THEN "idle" ELSE "slide"
    /\ UNCHANGED <<call, err, calls, placed>>

Next ==
    \/ \E e \in {Grid} \cup Stored, l \in Listeners : AddListener(e, l)
    \/ \E rep \in Matrices : SetTiles(rep)
    \/ PlaceTile
    \/ Left
    \/ Right
    \/ Up
    \/ Down
    \/ \E t \in Stored, d \in Directions : SlideCall(t, d)
    \/ SlideStep

Spec == Init /\ [][Next]_vars

-----------------------------------------------------------------------------
\* The queries, and saving and restoring a grid

QueryCalls == 1         \* slide calls made on a matrix before it is queried

\* The matrices that are queried: those above, matrices with other values in
\* any one row, and matrices with tiles in one column.
QueryLines == {<<1, 3, 0, 6>>, <<4, 4, 8, 16>>}

ColMatrix(c, line) == [i \in RowIdx |-> [j \in ColIdx |-> IF j = c THEN line[i + 1] ELSE 0]]

QueryMatrices ==
    Matrices \cup {RowMatrix(r, line) : r \in RowIdx, line \in QueryLines}
             \cup {ColMatrix(c, <<2, 2, 0, 4>>) : c \in {0, cols - 1}}

\* A call that returns value and changes nothing.
Query(name, args, value) ==
    /\ pc = "idle"
    /\ Install([Entry EXCEPT !.ret = value])
    /\ call' = [op |-> name, rep |-> args]
    /\ err' = "none"
    /\ UNCHANGED <<pc, frame, calls, placed>>

Score == Query("score", <<>>, score(tiles, heap))
AsList == Query("as_list", <<>>, as_list(tiles, heap))
FindEmpty == \E spot \in find_empty(tiles) : Query("find_empty", <<>>, spot)
InBounds(row, col) == Query("in_bounds", <<row, col>>, in_bounds(row, col))

\* grid.set_tiles(rep) with the matrix as_list() has just returned.
Reload ==
    /\ pc = "idle"
    /\ call.op = "as_list"
    /\ calls <= QueryCalls
    /\ Install(set_tiles(Entry, ret))
    /\ call' = [op |-> "set_tiles", rep |-> ret]
    /\ err' = "none"
    /\ calls' = calls + 1
    /\ UNCHANGED <<pc, frame, placed>>

QueryNext ==
    \/ \E rep \in QueryMatrices : SetTiles(rep)
    \/ \E t \in Stored, d \in Directions : calls < QueryCalls /\ SlideCall(t, d)
    \/ SlideStep
    \/ Score
    \/ AsList
    \/ FindEmpty
    \/ Reload

QuerySpec == Init /\ [][QueryNext]_vars

-----------------------------------------------------------------------------
\* Listeners that register in any order, on the grid and on tiles

MaxRegistrations == 2   \* add_listener calls since the grid was last filled
ListenerCalls == 1      \* slide calls since then

Observers == {"view", "log"}

ListenerMatrices == {RowMatrix(0, <<2, 2, 0, 0>>), RowMatrix(0, <<2, 4, 0, 0>>)}

\* elem.add_listener(listener)
Register(elem, listener) ==
    /\ pc = "idle"
    /\ Registrations < MaxRegistrations
    /\ Install(add_listener(Entry, elem, listener))
    /\ call' = [op |-> "add_listener", rep |-> <<>>]
    /\ err' = "none"
    /\ UNCHANGED <<pc, frame, calls, placed>>

\* elem.notify_all(GameEvent(kind, tile)) called directly.
NotifyAll(elem, kind, tile) ==
    /\ pc = "idle"
    /\ Install(notify_all(Entry, elem, kind, tile))
    /\ call' = [op |-> "notify_all", rep |-> <<>>]
    /\ err' = "none"
    /\ UNCHANGED <<pc, frame, calls, placed>>

ListenerNext ==
    \/ \E rep \in ListenerMatrices : SetTiles(rep)
    \/ \E e \in {Grid} \cup Stored, l \in Observers : Register(e, l)
    \/ \E e \in {Grid} \cup Stored, k \in EventKind, t \in Stored : NotifyAll(e, k, t)
    \/ \E t \in Stored, d \in Directions : calls < ListenerCalls /\ SlideCall(t, d)
    \/ SlideStep

ListenerSpec == Init /\ [][ListenerNext]_vars

-----------------------------------------------------------------------------
\* A game played from the empty grid, without set_tiles

PlayCalls == 3          \* calls made since the grid was constructed
PlayPlaced == 2         \* place_tile calls among them

PlayNext ==
    \/ calls < PlayCalls /\ placed < PlayPlaced /\ PlaceTileCall
    \/ \E t \in Stored, d \in Directions : calls < PlayCalls /\ SlideEnter(t, d)
    \/ SlideStep
    \/ Left
    \/ Right
    \/ Up
    \/ Down

PlaySpec == Init /\ [][PlayNext]_vars

\* The arguments in_bounds is called with: every position of the grid and
\* those one step outside it.
Probes == (0 - 1) .. rows

BoundsNext ==
    \/ \E rep \in Matrices : SetTiles(rep)
    \/ \E row \in Probes, col \in Probes : InBounds(row, col)

BoundsSpec == Init /\ [][BoundsNext]_vars

-----------------------------------------------------------------------------
\* Vocabulary of the properties

\* Row r of the value matrix, as a sequence of cols numbers.
RowOf(tls, hp, r) == [j \in 1 .. cols |-> as_list(tls, hp)[r][j - 1]]

\* The non-zero entries of a line in order, and the line packed to its right end.
Compact(line) == SelectSeq(line, LAMBDA v : v # 0)
PackRight(line) ==
    [j \in 1 .. Len(line) |->
        IF j <= Len(line) - Len(Compact(line)) THEN 0
        ELSE Compact(line)[j - (Len(line) - Len(Compact(line)))]]

\* The events of one kind in a log, and those a step appends to the log.
OfKind(log, kind) == SelectSeq(log, LAMBDA e : e.kind = kind)
Emitted == SubSeq(events', Len(events) + 1, Len(events'))

StoredIn(tls) == {tls[r][c] : r \in RowIdx, c \in ColIdx} \ {None}

IsMove == Left \/ Right \/ Up \/ Down

-----------------------------------------------------------------------------
\* C1: left() turns a row [2,2,0,0] into [4,0,0,0], the surviving tile in the
\* leftmost cell, and emits tile_updated for the surviving tile and
\* tile_removed for the absorbed one during the call.
C1_LeftMergesPair ==
    [][Left =>
        \A r \in RowIdx :
            RowOf(tiles, heap, r) = <<2, 2, 0, 0>> =>
                /\ RowOf(tiles', heap', r) = <<4, 0, 0, 0>>
                /\ \E s, a \in {tiles[r][0], tiles[r][1]} :
                     /\ s # a
                     /\ tiles'[r][0] = s
                     /\ \E i \in 1 .. Len(events') :
                          events'[i].kind = "tile_updated" /\ events'[i].tile = s
                     /\ \E i \in 1 .. Len(events') :
                          events'[i].kind = "tile_removed" /\ events'[i].tile = a]_vars

\* C2: left() turns a row [2,2,2,0] into [4,2,0,0], and no tile's value more
\* than doubles in one directional move (a merged tile does not merge again).
C2_NoDoubleMerge ==
    [][IsMove =>
        /\ Left => \A r \in RowIdx :
                     RowOf(tiles, heap, r) = <<2, 2, 2, 0>> =>
                         RowOf(tiles', heap', r) = <<4, 2, 0, 0>>
        /\ \A t \in StoredIn(tiles') :
             heap'[t].value \in {heap[t].value, 2 * heap[t].value}]_vars

\* C3: right() turns a row [2,4,0,0] into [0,0,2,4]; after right() every row
\* is packed against the right edge, and a row in which no two neighbouring
\* tiles have equal values keeps its tiles, in their order.
C3_RightPacks ==
    [][Right =>
        \A r \in RowIdx :
            /\ RowOf(tiles, heap, r) = <<2, 4, 0, 0>> =>
                   RowOf(tiles', heap', r) = <<0, 0, 2, 4>>
            /\ RowOf(tiles', heap', r) = PackRight(RowOf(tiles', heap', r))
            /\ LET line == Compact(RowOf(tiles, heap, r))
               IN  (\A i \in 1 .. Len(line) - 1 : line[i] # line[i + 1]) =>
                       RowOf(tiles', heap', r) = PackRight(RowOf(tiles, heap, r))]_vars

-----------------------------------------------------------------------------
Max(a, b) == IF a >= b THEN a ELSE b

\* The tile slide is looking at: the one in the cell next to the sliding tile.
Ahead == tiles[frame.row + frame.dx][frame.col + frame.dy]

\* C4 as claimed: a slide call emits at most one tile_removed event.
C4_AtMostOneRemoved ==
    call.op = "slide" => Len(OfKind(events, "tile_removed")) <= 1

\* C4, amended: one iteration of slide's loop emits at most one tile_removed
\* event, and one slide call at most max(rows, cols) - 1 of them, each for a
\* different tile; a tile equal to the merged value that lies beyond is
\* absorbed by the same call.
C4_OneRemovedPerStep ==
    /\ [](call.op = "slide" =>
            LET gone == OfKind(events, "tile_removed")
            IN  /\ Len(gone) <= Max(rows, cols) - 1
                /\ \A i, j \in 1 .. Len(gone) : gone[i].tile = gone[j].tile => i = j)
    /\ [][SlideStep =>
            /\ Len(OfKind(Emitted, "tile_removed")) <= 1
            /\ (/\ in_bounds(frame.row + frame.dx, frame.col + frame.dy)
                /\ Ahead # None
                /\ heap[Ahead].value = heap[frame.self].value)
               => Emitted[1] = GameEvent(Ahead, "tile_removed", Ahead)]_vars

\* A slide call that returned after merging twice.
C4_Witness ==
    call.op = "slide" /\ pc = "idle" /\ Len(OfKind(events, "tile_removed")) = 2

\* C5: slide terminates, and at most max(rows, cols) - 1 iterations of its
\* loop change the tile's position: an iteration can always be taken, and
\* every iteration that stays in the loop moves the tile, one cell nearer to
\* the edge it slides towards, which is never negative.
EdgeDistance ==
    IF frame.dx = 1 THEN rows - 1 - frame.row
    ELSE IF frame.dx = -1 THEN frame.row
    ELSE IF frame.dy = 1 THEN cols - 1 - frame.col
    ELSE frame.col

C5_SlideTerminates ==
    /\ [](pc = "slide" =>
            /\ ENABLED SlideStep
            /\ frame.moves <= Max(rows, cols) - 1
            /\ frame.iters = frame.moves
            /\ EdgeDistance >= 0)
    /\ [][(pc = "slide" /\ pc' = "slide") => EdgeDistance' = EdgeDistance - 1]_vars

\* A slide in its loop that has moved its tile across the whole grid.
C5_Witness ==
    pc = "slide" /\ frame.moves = Max(rows, cols) - 1

\* C6: every non-empty cell (r, c) holds a tile whose row is r and whose col
\* is c, in bounds, and no tile object is stored in two cells.
C6_PositionCache ==
    \A r \in RowIdx, c \in ColIdx :
        tiles[r][c] # None =>
            /\ tiles[r][c] \in 1 .. Len(heap)
            /\ heap[tiles[r][c]].row = r
            /\ heap[tiles[r][c]].col = c
            /\ in_bounds(heap[tiles[r][c]].row, heap[tiles[r][c]].col)
            /\ \A r2 \in RowIdx, c2 \in ColIdx :
                 tiles[r2][c2] = tiles[r][c] => (r2 = r /\ c2 = c)

\* A grid filled by set_tiles on which a tile was placed and a slide has
\* then moved a tile into another tile's cell.
C6_Witness ==
    /\ call.op = "slide" /\ pc = "idle" /\ placed = 1
    /\ Len(OfKind(events, "tile_removed")) >= 1
    /\ Cardinality(Stored) >= 2

\* C7 as claimed: a merge adds other.value to self.value and emits
\* tile_updated for the surviving tile first, then tile_removed for the
\* absorbed tile.
MergeStep ==
    /\ SlideStep
    /\ in_bounds(frame.row + frame.dx, frame.col + frame.dy)
    /\ Ahead # None
    /\ heap[Ahead].value = heap[frame.self].value

C7_UpdatedThenRemoved ==
    [][MergeStep =>
        /\ heap'[frame.self].value = heap[frame.self].value + heap[Ahead].value
        /\ Emitted[1] = GameEvent(frame.self, "tile_updated", frame.self)
        /\ Emitted[2] = GameEvent(Ahead, "tile_removed", Ahead)]_vars

\* C7, amended: a merge adds other.value to self.value and emits tile_removed
\* for the absorbed tile first, then tile_updated for the surviving tile.
C7_RemovedThenUpdated ==
    [][MergeStep =>
        /\ heap'[frame.self].value = heap[frame.self].value + heap[Ahead].value
        /\ Emitted[1] = GameEvent(Ahead, "tile_removed", Ahead)
        /\ Emitted[2] = GameEvent(frame.self, "tile_updated", frame.self)]_vars

\* A slide that merged a tile of value 2 into another: the log starts with
\* the removal.
C7_Witness ==
    /\ call.op = "slide"
    /\ Len(events) >= 2
    /\ events[1].kind = "tile_removed"
    /\ events[2].kind = "tile_updated"
    /\ heap[events[2].tile].value >= 4

-----------------------------------------------------------------------------
\* C8 as claimed: set_tiles notifies no listener.
C8_SetTilesSilent ==
    call.op = "set_tiles" => notified = <<>>

\* The cells of a matrix that are not 0, in row-major order, numbered from 0.
NonZero(rep) ==
    SelectSeq([k \in 1 .. rows * cols |-> k - 1],
              LAMBDA k : rep[k \div cols][k % cols] # 0)

\* C8, amended: set_tiles replaces all grid contents and emits one
\* tile_created event for every non-zero entry of the matrix, in row-major
\* order, each delivered to every listener of the grid in registration order;
\* no listener of a tile is notified.
C8_SetTilesNotifiesGrid ==
    call.op = "set_tiles" =>
        LET nz == NonZero(call.rep)
            ls == listeners[Grid]
        IN  /\ as_list(tiles, heap) = call.rep
            /\ Len(events) = Len(nz)
            /\ \A i \in 1 .. Len(nz) :
                 LET t == tiles[nz[i] \div cols][nz[i] % cols]
                 IN  /\ events[i] = GameEvent(Grid, "tile_created", t)
                     /\ heap[t] = [row |-> nz[i] \div cols, col |-> nz[i] % cols,
                                   value |-> call.rep[nz[i] \div cols][nz[i] % cols]]
            /\ Len(notified) = Len(nz) * Len(ls)
            /\ \A i \in 1 .. Len(nz), j \in 1 .. Len(ls) :
                 notified[(i - 1) * Len(ls) + j] =
                     [listener |-> ls[j], src |-> Grid,
                      kind |-> "tile_created", tile |-> events[i].tile]

\* set_tiles has filled a grid that has a listener with two tiles or more.
C8_Witness ==
    call.op = "set_tiles" /\ Len(listeners[Grid]) >= 1 /\ Len(notified) >= 2

\* C9: place_tile on a grid with an empty cell occupies exactly one cell that
\* was empty with a new tile of value 2 or 4, leaves every other cell and
\* every other tile as it was, and emits exactly one tile_created event, which
\* carries the new tile.
C9_PlacementValid ==
    [][(call'.op = "place_tile" /\ PlaceTile
          /\ \E r \in RowIdx, c \in ColIdx : tiles[r][c] = None) =>
        \E r \in RowIdx, c \in ColIdx :
            LET t == tiles'[r][c]
            IN  /\ tiles[r][c] = None
                /\ t # None
                /\ t \notin 1 .. Len(heap)
                /\ heap'[t] = [row |-> r, col |-> c, value |-> heap'[t].value]
                /\ heap'[t].value \in {2, 4}
                /\ \A r2 \in RowIdx, c2 \in ColIdx :
                     <<r2, c2>> # <<r, c>> => tiles'[r2][c2] = tiles[r2][c2]
                /\ \A u \in 1 .. Len(heap) : heap'[u] = heap[u]
                /\ events' = <<GameEvent(Grid, "tile_created", t)>>
                /\ err' = "none"]_vars

\* place_tile has added a tile to a grid that held tiles already.
C9_Witness ==
    /\ call.op = "place_tile" /\ err = "none"
    /\ Len(events) = 1
    /\ Cardinality(Stored) >= 2

\* C10: place_tile on a grid with no empty cell raises (AssertionError where
\* assertions are enabled) and does not recover: the grid and its tiles are
\* unchanged and no event is emitted.
C10_PlaceOnFullFails ==
    [][(call'.op = "place_tile" /\ PlaceTile
          /\ \A r \in RowIdx, c \in ColIdx : tiles[r][c] # None) =>
        /\ err' # "none"
        /\ \E asserts \in BOOLEAN :
             err' = (IF asserts THEN "AssertionError" ELSE "TypeError")
        /\ tiles' = tiles
        /\ heap' = heap
        /\ events' = <<>>
        /\ notified' = <<>>]_vars

\* place_tile has been called on a full grid and has raised AssertionError.
C10_Witness ==
    /\ call.op = "place_tile" /\ err = "AssertionError"
    /\ \A r \in RowIdx, c \in ColIdx : tiles[r][c] # None

-----------------------------------------------------------------------------
\* C11: for every matrix m that is explored, the all-zero and the fully
\* occupied one among them, as_list() after set_tiles(m) gives m; and
\* set_tiles called with what as_list() has just returned leaves the values
\* of the grid as they were.
C11_RoundTrip ==
    /\ [](call.op = "set_tiles" => as_list(tiles, heap) = call.rep)
    /\ [][(call.op = "as_list" /\ call'.op = "set_tiles" /\ call'.rep = ret) =>
            as_list(tiles', heap') = as_list(tiles, heap)]_vars

\* A grid on which a slide has merged tiles has been saved with as_list and
\* restored with set_tiles.
C11_Witness ==
    /\ call.op = "set_tiles" /\ calls = QueryCalls + 1
    /\ \E r \in RowIdx : RowOf(tiles, heap, r) = <<0, 0, 0, 16>>

-----------------------------------------------------------------------------
\* The entries of a matrix in row-major order, and the sum of those of a
\* sequence that are not 0.
Flat(rep) == [k \in 1 .. rows * cols |-> rep[(k - 1) \div cols][(k - 1) % cols]]

RECURSIVE SumNonZero(_)
SumNonZero(q) ==
    IF q = <<>> THEN 0
    ELSE (IF Head(q) # 0 THEN Head(q) ELSE 0) + SumNonZero(Tail(q))

\* C12: in every reachable state score() is the sum of the non-zero entries
\* of as_list(), a call of score() returns that sum, and a call of score()
\* or as_list() leaves the cells, the tiles and the listener lists as they
\* were and emits no event.
C12_ScoreIsSum ==
    /\ [](score(tiles, heap) = SumNonZero(Flat(as_list(tiles, heap))))
    /\ [](call.op = "score" => ret = SumNonZero(Flat(as_list(tiles, heap))))
    /\ [](call.op = "as_list" => ret = as_list(tiles, heap))
    /\ [][call'.op \in {"score", "as_list"} =>
            /\ UNCHANGED <<tiles, heap, listeners, removed>>
            /\ events' = <<>>
            /\ notified' = <<>>]_vars

\* score() has been called on a grid on which a slide has merged the row
\* [2,2,4,8] into one tile.
C12_Witness ==
    /\ call.op = "score" /\ calls = QueryCalls
    /\ ret = 16
    /\ Cardinality(Stored) = 1

-----------------------------------------------------------------------------
\* C13: find_empty returns None exactly when no cell is empty, which is
\* exactly when as_list() contains no 0; otherwise it returns the (row, col)
\* of a cell that is empty.
C13_FindEmpty ==
    call.op = "find_empty" =>
        /\ (ret = NoSpot) <=> (\A r \in RowIdx, c \in ColIdx : tiles[r][c] # None)
        /\ (ret = NoSpot) <=>
               (\A r \in RowIdx, c \in ColIdx : as_list(tiles, heap)[r][c] # 0)
        /\ (ret # NoSpot) =>
               /\ ret \in RowIdx \X ColIdx
               /\ tiles[ret[1]][ret[2]] = None
               /\ as_list(tiles, heap)[ret[1]][ret[2]] = 0

\* find_empty has returned None on a full grid.
C13_Witness ==
    /\ call.op = "find_empty" /\ ret = NoSpot
    /\ Cardinality(Stored) = rows * cols

-----------------------------------------------------------------------------
\* C14: in_bounds(row, col) is true for every position of the grid, and false
\* when row is -1, col is -1, row is rows or col is cols.
C14_InBounds ==
    call.op = "in_bounds" =>
        LET row == call.rep[1]
            col == call.rep[2]
        IN  /\ (row \in RowIdx /\ col \in ColIdx) => ret = TRUE
            /\ (row = 0 - 1 \/ col = 0 - 1 \/ row = rows \/ col = cols) => ret = FALSE

\* in_bounds has been asked about the position just below the last row, and
\* has said no.
C14_Witness ==
    call.op = "in_bounds" /\ call.rep = <<rows, 0>> /\ ret = FALSE

-----------------------------------------------------------------------------
\* The events a step emits: those a slide iteration appends to the log of its
\* call, or the whole log of a call made in one step.
NewEvents == IF pc = "slide" THEN Emitted ELSE events'

\* C15: a tile that has emitted tile_removed is referenced by no cell once
\* the slide that absorbed it returns; and in every later step of slide,
\* place_tile, a directional move or add_listener, slide being called on
\* tiles the grid holds, it stays removed, no cell references it and no
\* event is emitted for it.  (set_tiles discards every tile object, removed
\* or not, and builds new ones.)
C15_RemovedIsDead ==
    /\ [](pc = "idle" => removed \cap Stored = {})
    /\ [][(call'.op # "set_tiles" /\ removed # {}) =>
            \A t \in removed :
                /\ t \in removed'
                /\ t \notin StoredIn(tiles')
                /\ \A i \in 1 .. Len(NewEvents) : NewEvents[i].tile # t]_vars

\* A slide has absorbed a tile and returned, and place_tile has then put a
\* new tile on the grid.
C15_Witness ==
    /\ removed # {}
    /\ call.op = "place_tile" /\ err = "none"
    /\ Len(events) = 1

-----------------------------------------------------------------------------
\* C16: whenever a tile_created or tile_updated event is delivered to a
\* listener, grid.tiles[tile.row][tile.col] is the event's tile.
C16_StoredAtDelivery ==
    \A i \in 1 .. Len(notified) :
        notified[i].kind \in {"tile_created", "tile_updated"} => seen[i] = "stored"

-----------------------------------------------------------------------------
\* The notify calls that the notify_all calls of a log make when every
\* registration of the event's element is served once, in registration order.
RECURSIVE Deliveries(_)
Deliveries(log) ==
    IF log = <<>> THEN <<>>
    ELSE LET e == Head(log)
             ls == listeners[e.src]
         IN  [i \in 1 .. Len(ls) |->
                 [listener |-> ls[i], src |-> e.src, kind |-> e.kind, tile |-> e.tile]]
             \o Deliveries(Tail(log))

\* C17: add_listener appends the listener to the list of its element and of
\* no other, whether or not it is there already; and the notify calls of a
\* call are, for each of its notify_all calls in turn, one per registration
\* of that element, in registration order, carrying that event, and none for
\* a listener of another element.
C17_NotifyInOrder ==
    /\ [](notified = Deliveries(events))
    /\ [][call'.op = "add_listener" =>
            \E e \in DOMAIN listeners, l \in Observers :
                listeners' = [listeners EXCEPT ![e] = Append(@, l)]]_vars

\* A slide of a tile on which the same listener registered twice: each of
\* its events has been delivered twice.
C17_Witness ==
    /\ call.op = "slide"
    /\ Len(events) >= 1
    /\ Len(notified) = 2 * Len(events)
    /\ notified[1].listener = notified[2].listener

-----------------------------------------------------------------------------
RECURSIVE IsPowerOfTwo(_)
IsPowerOfTwo(n) ==
    IF n <= 0 THEN FALSE
    ELSE IF n = 1 THEN TRUE
    ELSE n % 2 = 0 /\ IsPowerOfTwo(n \div 2)

\* C18: from the empty grid, after any sequence of place_tile calls, slide
\* calls and directional moves, every tile of the grid has a positive value
\* that is a power of 2.
C18_PowersOfTwo ==
    \A r \in RowIdx, c \in ColIdx :
        tiles[r][c] # None => IsPowerOfTwo(heap[tiles[r][c]].value)

\* Two tiles have been placed and a slide has merged them.
C18_Witness ==
    /\ call.op = "slide" /\ placed = 2
    /\ \E t \in Stored : heap[t].value = 4

-----------------------------------------------------------------------------
\* C19: no step of a slide call changes score(), so that it is after the
\* call what it was before; left, right, up and down (and add_listener)
\* leave it unchanged; and place_tile raises it by exactly the value of the
\* tile it adds, or leaves it unchanged where it raises an exception.
C19_ScoreConserved ==
    [][/\ call'.op \in {"slide", "left", "right", "up", "down", "add_listener"} =>
            score(tiles', heap') = score(tiles, heap)
       /\ call'.op = "place_tile" =>
            IF err' = "none"
            THEN \E t \in StoredIn(tiles') \ Stored :
                    /\ StoredIn(tiles') = Stored \cup {t}
                    /\ score(tiles', heap') = score(tiles, heap) + heap'[t].value
            ELSE score(tiles', heap') = score(tiles, heap)]_vars

\* A slide has merged the four tiles of the row [2,2,4,8] into one and has
\* returned: the score is still 16.
C19_Witness ==
    /\ call.op = "slide" /\ pc = "idle"
    /\ Cardinality(removed) = 3
    /\ score(tiles, heap) = 16

-----------------------------------------------------------------------------
\* The cell next to the sliding tile in the direction of the slide is outside
\* the grid or holds a tile of another value.
BlockedAhead ==
    LET x == frame.row + frame.dx
        y == frame.col + frame.dy
    IN  \/ x \notin RowIdx
        \/ y \notin ColIdx
        \/ (tiles[x][y] # None /\ heap[tiles[x][y]].value # heap[frame.self].value)

\* C20: a slide of a tile whose neighbouring cell in the slide direction is
\* out of bounds or holds a tile of a different value returns from its first
\* iteration; entering slide and that iteration leave every cell and every
\* tile's row, col and value unchanged, and no event is emitted.
C20_BlockedSlide ==
    [][/\ (pc = "idle" /\ pc' = "slide") =>
            /\ tiles' = tiles /\ heap' = heap
            /\ events' = <<>> /\ notified' = <<>>
            /\ frame'.row = heap[frame'.self].row
            /\ frame'.col = heap[frame'.self].col
       /\ (pc = "slide" /\ frame.iters = 0 /\ BlockedAhead) =>
            /\ pc' = "idle"
            /\ tiles' = tiles /\ heap' = heap
            /\ events' = <<>> /\ notified' = <<>>]_vars

\* A slide on the fully occupied grid, where every tile has the edge or a
\* tile of the other value on each side, has returned.
C20_Witness ==
    /\ call.op = "slide" /\ pc = "idle"
    /\ events = <<>>
    /\ Cardinality(Stored) = rows * cols

====
